---- MODULE Spec2Model ----
\* One run of the Kloth_2025_Dashboard.py script, top to bottom: the file
\* guards, the two loaders, the state/territory join, the sidebar controls,
\* the two filter pipelines (ts, ag), the KPI bar and the two tabs.
\* Floats are modelled as integers (whole kilograms); dates as the number of
\* days since the origin 1899-12-30 that pd.to_datetime(unit="D") counts from.
EXTENDS Integers, Sequences, FiniteSets, TLC

\* ---------------------------------------------------------------- bounds
\* Rows of a fact sheet (drawn from FactPool, in sheet order).
MaxFactRows == 2
\* Controls the user has moved away from their default in one run.
MaxNarrowed == 2

\* ------------------------------------------------------- program constants
AGG_PATH == "KLOTH_Malaysia_Week33_Enriched.xlsx"
FACT_PATH == "2025 Week 33.xlsx"
dow_order == <<"Monday", "Tuesday", "Wednesday", "Thursday", "Friday", "Saturday", "Sunday">>
TopNMin == 3
TopNMax == 50
TopNDefault == 10
DowOther == 99

\* Column names.
cSiteId == "Site Contract ID"
cLoc == "Location Name"
cAddr == "Site Address"
cState == "State/Federal Territory"
cAcc == "Total Acceptable (KG)"
cRej == "Total Rejected (KG)"
cName == "Name"
cDate == "Date"
cDateDt == "Date_dt"
cSite == "Site"
cWeight == "WeightKG"
cMonth == "MonthText"
cDow == "Day of Week"

\* ------------------------------------------------------------ sheet cells
\* A spreadsheet cell as read_excel delivers it: a number, a text, or blank.
Num(n) == [k |-> "num", n |-> n, s |-> ""]
Txt(s) == [k |-> "txt", n |-> 0, s |-> s]
Blank == [k |-> "na", n |-> 0, s |-> ""]

\* The null date (NaT); no real date of the model is negative.
NaT == -1
\* A missing value in a string column after a left merge (NaN).
NaN == "<NaN>"

Digits == <<"0", "1", "2", "3", "4", "5", "6", "7", "8", "9">>

RECURSIVE DecStr(_)
\* str() of a non-negative integer.
DecStr(n) == IF n < 10 THEN Digits[n + 1] ELSE DecStr(n \div 10) \o Digits[(n % 10) + 1]

\* pd.to_numeric(errors="coerce").fillna(0.0) on one cell.
ToNumeric0(c) == IF c.k = "num" THEN c.n ELSE 0

\* pd.to_datetime(unit="D", origin="1899-12-30", errors="coerce") on one cell.
ToDatetime(c) == IF c.k = "num" THEN c.n ELSE NaT

\* astype(str) on one cell: a blank cell becomes the text "nan".
AsStr(c) == IF c.k = "txt" THEN c.s ELSE IF c.k = "na" THEN "nan" ELSE DecStr(c.n)

\* str.title() on the day-of-week texts the sheets of the model hold.
Title(s) ==
    CASE s \in {"monday", "MONDAY", "Monday"} -> "Monday"
      [] s \in {"tuesday", "TUESDAY", "Tuesday"} -> "Tuesday"
      [] s \in {"mon", "MON", "Mon"} -> "Mon"
      [] s = "nan" -> "Nan"
      [] OTHER -> s

\* ------------------------------------------------------------ generic helpers
Range(s) == {s[i] : i \in DOMAIN s}

RECURSIVE SumCol(_, _)
\* Series.sum() of a numeric column.
SumCol(rows, col) == IF rows = <<>> THEN 0 ELSE Head(rows)[col] + SumCol(Tail(rows), col)

RECURSIVE SumPairs(_)
\* The sum of the values of a sequence of <<key, value>> pairs.
SumPairs(ps) == IF ps = <<>> THEN 0 ELSE Head(ps)[2] + SumPairs(Tail(ps))

Perms(S) == {f \in [1..Cardinality(S) -> S] : \A i, j \in 1..Cardinality(S) : f[i] = f[j] => i = j}

Max(S) == CHOOSE m \in S : \A x \in S : x <= m
Min(S) == CHOOSE m \in S : \A x \in S : m <= x
MaxOf(a, b) == IF a >= b THEN a ELSE b
MinOf(a, b) == IF a <= b THEN a ELSE b

\* ------------------------------------------------------------ input files
NoFile == [cols |-> {}, rows |-> <<>>, exists |-> FALSE]
Sheet(cols, rows) == [cols |-> cols, rows |-> rows, exists |-> TRUE]

AggCols == {cSiteId, cLoc, cAddr, cState, cAcc, cRej}
FactCols == {cName, cDate, cSite, cWeight, cMonth, cDow}

AggRow(site, loc, addr, state, acc, rej) ==
    (cSiteId :> site) @@ (cLoc :> loc) @@ (cAddr :> addr) @@ (cState :> state)
        @@ (cAcc :> acc) @@ (cRej :> rej)

FactRow(name, date, site, w, month, d) ==
    (cName :> name) @@ (cDate :> date) @@ (cSite :> site) @@ (cWeight :> w)
        @@ (cMonth :> month) @@ (cDow :> d)

\* The three-site table of the specification's scenarios.
AggScenario ==
    << AggRow(Num(1), <<"A", "b">>, <<"b", " ", "a">>, Txt("Selangor"), Num(100), Num(0)),
       AggRow(Num(2), <<"a", ".">>, <<"a">>, Txt("Selangor"), Num(50), Num(5)),
       AggRow(Num(3), <<"b">>, <<"A", "b">>, Txt("Johor"), Num(30), Txt("n/a")) >>

\* Repeated site ids, repeated location names, tied sums, a blank state cell.
AggDuplicates ==
    << AggRow(Num(1), <<"a">>, <<"a">>, Txt("Johor"), Num(40), Num(0)),
       AggRow(Num(1), <<"b">>, <<"b">>, Txt("Selangor"), Num(40), Num(0)),
       AggRow(Num(2), <<"a">>, <<"a", "b">>, Txt("Selangor"), Num(100), Num(1)),
       AggRow(Num(3), <<"a", "b">>, <<"b">>, Blank, Txt("n/a"), Num(0)),
       AggRow(Num(3), <<"b", ".">>, <<"b">>, Txt("Johor"), Num(40), Num(0)) >>

DropCol(sheet, col) ==
    Sheet(sheet.cols \ {col},
          [i \in DOMAIN sheet.rows |-> [c \in (sheet.cols \ {col}) |-> sheet.rows[i][c]]])

AggFiles ==
    {Sheet(AggCols, AggScenario), Sheet(AggCols, AggDuplicates)}
        \cup {DropCol(Sheet(AggCols, AggScenario), c) : c \in {cState, cAcc}}

\* 45880 is Monday 2025-08-11, the first day of ISO week 33.
FactPool ==
    << FactRow(Txt("W01"), Num(45880), Num(1), Num(5), Txt("Aug"), Txt("monday")),
       FactRow(Txt("W01"), Txt("n/a"), Num(2), Num(3), Txt("Aug"), Txt("Tuesday")),
       FactRow(Blank, Num(45882), Num(9), Num(4), Txt("Aug"), Txt("Mon")),
       FactRow(Txt("W02"), Num(45882), Num(3), Num(5), Txt("Sep"), Txt("TUESDAY")) >>

\* Strictly increasing index sequences into the pool, at most MaxFactRows long.
RowPicks ==
    UNION {{p \in [1..n -> DOMAIN FactPool] : \A i \in 1..n : i > 1 => p[i - 1] < p[i]}
           : n \in 0..MinOf(MaxFactRows, Len(FactPool))}

FactBase == Sheet(FactCols, SubSeq(FactPool, 1, 2))

\* The fact sheets of the model: every choice of pool rows that holds at least
\* one parseable date (what st.slider does with NaT bounds is streamlit's
\* behaviour, not this program's), and the two-row sheet less one column.
FactFiles ==
    {Sheet(FactCols, [i \in DOMAIN p |-> FactPool[p[i]]]) :
        p \in {q \in RowPicks : \E i \in DOMAIN q : FactPool[q[i]][cDate].k = "num"}}
        \cup {DropCol(FactBase, c) : c \in FactCols \ {cSite}}

\* ------------------------------------------------------------------ state
VARIABLES
    aggFile, factFile,      \* what lies at AGG_PATH and FACT_PATH
    pc,                     \* position of the script
    exc,                    \* the uncaught exception that ended the run, if any
    notices,                \* st.error / st.info messages shown so far
    narrowed,               \* controls moved away from their default so far
    df_agg, df_fact,
    ts_state_sel, ts_week_sel, ts_month_sel, ts_dow_sel, ts_date_range,
    ts, total_w, days_count, sites_count, top_dow, peak_date,
    ag_state_sel, ag_site_sel, ag_name_q, ag_addr_q, ag_acc_range, top_n,
    ag, bar_data, state_pie_data,
    daily, dow, heat

files == <<aggFile, factFile>>
frames == <<df_agg, df_fact>>
tsWidgets == <<ts_state_sel, ts_week_sel, ts_month_sel, ts_dow_sel, ts_date_range>>
kpis == <<total_w, days_count, sites_count, top_dow, peak_date>>
agWidgets == <<ag_state_sel, ag_site_sel, ag_name_q, ag_addr_q, ag_acc_range, top_n>>
aggTab == <<bar_data, state_pie_data>>
tsTab == <<daily, dow, heat>>
vars == <<files, pc, exc, notices, narrowed, frames, tsWidgets, ts, kpis, agWidgets, ag,
          aggTab, tsTab>>

NoTable == [cols |-> {}, rows |-> <<>>, loaded |-> FALSE]
Table(cols, rows) == [cols |-> cols, rows |-> rows, loaded |-> TRUE]
NoExc == [type |-> "", line |-> 0]
Exc(type, line) == [type |-> type, line |-> line]
NoHeat == [index |-> {}, columns |-> <<>>, cell |-> [x \in {} |-> 0], shown |-> FALSE]
Notice(kind, text) == [kind |-> kind, text |-> text]

Init ==
    /\ aggFile \in AggFiles \cup {NoFile}
    /\ factFile \in FactFiles \cup {NoFile}
    /\ pc = "check_agg"
    /\ exc = NoExc
    /\ notices = <<>>
    /\ narrowed = 0
    /\ df_agg = NoTable /\ df_fact = NoTable
    /\ ts_state_sel = {} /\ ts_week_sel = {} /\ ts_month_sel = {} /\ ts_dow_sel = {}
    /\ ts_date_range = <<>>
    /\ ts = NoTable
    /\ total_w = 0 /\ days_count = 0 /\ sites_count = 0 /\ top_dow = "" /\ peak_date = ""
    /\ ag_state_sel = {} /\ ag_site_sel = {} /\ ag_name_q = <<>> /\ ag_addr_q = <<>>
    /\ ag_acc_range = <<>> /\ top_n = 0
    /\ ag = NoTable /\ bar_data = <<>> /\ state_pie_data = <<>>
    /\ daily = <<>> /\ dow = <<>> /\ heat = NoHeat

\* An uncaught exception ends the run.
Raise(type, line) == pc' = "crashed" /\ exc' = Exc(type, line)

\* --------------------------------------------------------- guard: files
\* A guard that takes every path to exist.
PathExistsAlways(f) == TRUE

\* Path(p).exists() for the file at a path.
PathExists(f) == f.exists

CheckAggFile ==
    /\ pc = "check_agg"
    /\ IF ~PathExists(aggFile)
       THEN /\ notices' = Append(notices, Notice("error", "Missing file: " \o AGG_PATH))
            /\ pc' = "stopped"
       ELSE /\ pc' = "check_fact"
            /\ UNCHANGED notices
    /\ UNCHANGED <<files, exc, narrowed, frames, tsWidgets, ts, kpis, agWidgets, ag, aggTab, tsTab>>

CheckFactFile ==
    /\ pc = "check_fact"
    /\ IF ~PathExists(factFile)
       THEN /\ notices' = Append(notices,
                    Notice("error", "Missing file: " \o FACT_PATH \o " (expected sheet 'Fact')"))
            /\ pc' = "stopped"
       ELSE /\ pc' = "load_agg"
            /\ UNCHANGED notices
    /\ UNCHANGED <<files, exc, narrowed, frames, tsWidgets, ts, kpis, agWidgets, ag, aggTab, tsTab>>

\* ---------------------------------------------------------------- loaders
load_aggregated(f) ==
    Table(f.cols,
          [i \in DOMAIN f.rows |->
              [c \in f.cols |->
                  IF c \in {cAcc, cRej} THEN ToNumeric0(f.rows[i][c])
                  ELSE IF c \in {cSiteId, cState} THEN AsStr(f.rows[i][c])
                  ELSE f.rows[i][c]]])

\* load_fact for a sheet that has the WeightKG column.
load_fact(f) ==
    LET outCols == f.cols \cup (IF cDate \in f.cols THEN {cDateDt} ELSE {})
    IN  Table(outCols,
              [i \in DOMAIN f.rows |->
                  [c \in outCols |->
                      IF c = cDateDt THEN ToDatetime(f.rows[i][cDate])
                      ELSE IF c = cWeight THEN ToNumeric0(f.rows[i][c])
                      ELSE IF c = cDow THEN Title(AsStr(f.rows[i][c]))
                      ELSE IF c \in {cName, cSite, cMonth} THEN AsStr(f.rows[i][c])
                      ELSE f.rows[i][c]]])

LoadAggregated ==
    /\ pc = "load_agg"
    /\ df_agg' = load_aggregated(aggFile)
    /\ pc' = "load_fact"
    /\ UNCHANGED <<files, exc, notices, narrowed, df_fact, tsWidgets, ts, kpis, agWidgets, ag,
                   aggTab, tsTab>>

LoadFact ==
    /\ pc = "load_fact"
    /\ IF cWeight \notin factFile.cols
       THEN \* fact.get("WeightKG", 0.0) is the float 0.0, which has no fillna
            Raise("AttributeError", 34) /\ UNCHANGED df_fact
       ELSE df_fact' = load_fact(factFile) /\ pc' = "join" /\ UNCHANGED exc
    /\ UNCHANGED <<files, notices, narrowed, df_agg, tsWidgets, ts, kpis, agWidgets, ag,
                   aggTab, tsTab>>

\* ------------------------------------------------------------------- join
RECURSIVE DropDuplicates(_, _)
\* drop_duplicates(key): keep the first row of every key, in order.
DropDuplicates(rows, seen) ==
    IF rows = <<>> THEN <<>>
    ELSE IF Head(rows)[cSiteId] \in seen THEN DropDuplicates(Tail(rows), seen)
    ELSE <<Head(rows)>> \o DropDuplicates(Tail(rows), seen \cup {Head(rows)[cSiteId]})

\* The lookup table without drop_duplicates.
MapperKeepAll(agg) ==
    [i \in DOMAIN agg.rows |->
        (cSiteId :> agg.rows[i][cSiteId]) @@ (cState :> agg.rows[i][cState])]

\* df_agg[[id, state]].drop_duplicates(id)
Mapper(agg) ==
    DropDuplicates([i \in DOMAIN agg.rows |->
                       (cSiteId :> agg.rows[i][cSiteId]) @@ (cState :> agg.rows[i][cState])],
                   {})

\* The rows a left merge produces for one left row.
MergeRow(row, mapper) ==
    LET hits == SelectSeq(mapper, LAMBDA m : m[cSiteId] = row[cSite])
    IN  IF hits = <<>>
        THEN <<row @@ (cSiteId :> NaN) @@ (cState :> NaN)>>
        ELSE [i \in DOMAIN hits |->
                 row @@ (cSiteId :> hits[i][cSiteId]) @@ (cState :> hits[i][cState])]

RECURSIVE Merge(_, _)
\* df_fact.merge(mapper, left_on="Site", right_on="Site Contract ID", how="left")
Merge(rows, mapper) ==
    IF rows = <<>> THEN <<>> ELSE MergeRow(Head(rows), mapper) \o Merge(Tail(rows), mapper)

\* fillna("Unknown") on the state column.
FillUnknown(rows) ==
    [i \in DOMAIN rows |-> [rows[i] EXCEPT ![cState] = IF @ = NaN THEN "Unknown" ELSE @]]

JoinState ==
    /\ pc = "join"
    /\ IF ~({cSiteId, cState} \subseteq df_agg.cols)
       THEN Raise("KeyError", 55) /\ UNCHANGED df_fact
       ELSE IF cSite \notin df_fact.cols
       THEN Raise("KeyError", 56) /\ UNCHANGED df_fact
       ELSE /\ df_fact' = Table(df_fact.cols \cup {cSiteId, cState},
                                FillUnknown(Merge(df_fact.rows, Mapper(df_agg))))
            /\ pc' = "ts_sidebar"
            /\ UNCHANGED exc
    /\ UNCHANGED <<files, notices, narrowed, df_agg, tsWidgets, ts, kpis, agWidgets, ag,
                   aggTab, tsTab>>

\* --------------------------------------------------------- group-by helpers
\* A null group key: groupby and nunique leave such rows out (dropna=True).
IsNull(col, v) ==
    IF col = cDateDt THEN v = NaT
    ELSE IF col \in {cLoc, cAddr, cAcc, cRej, cWeight} THEN FALSE
    ELSE v = NaN

\* The distinct non-null values of a column.
Unique(rows, col) == {rows[i][col] : i \in {j \in DOMAIN rows : ~IsNull(col, rows[j][col])}}

\* groupby(key)[val].sum() for one group key.
GroupSum(rows, key, val, k) == SumCol(SelectSeq(rows, LAMBDA r : r[key] = k), val)

\* groupby(key)[val].sum() as a set of <<key, sum>> pairs.
GroupSums(rows, key, val) == {<<k, GroupSum(rows, key, val, k)>> : k \in Unique(rows, key)}

\* sort_values(val, ascending=False): every order of the groups that no later
\* entry's sum exceeds an earlier one's; equal sums may come in either order.
SortDescending(groups) ==
    {s \in Perms(groups) : \A i, j \in DOMAIN s : i < j => s[i][2] >= s[j][2]}

\* head() that takes one row too many.
HeadNPlusOne(s, n) == SubSeq(s, 1, MinOf(n + 1, Len(s)))

\* df.head(n)
HeadN(s, n) == SubSeq(s, 1, MinOf(n, Len(s)))

\* ------------------------------------------------------------------ dates
Pad2(n) == IF n < 10 THEN "0" \o DecStr(n) ELSE DecStr(n)
Pad4(n) == IF n < 10 THEN "000" \o DecStr(n)
           ELSE IF n < 100 THEN "00" \o DecStr(n)
           ELSE IF n < 1000 THEN "0" \o DecStr(n) ELSE DecStr(n)

\* Timestamp.date().isoformat() of a day count from 1899-12-30 (on or after 1900-03-01).
IsoFormat(serial) ==
    LET z == serial - 25569 + 719468
        era == z \div 146097
        doe == z - era * 146097
        yoe == (doe - doe \div 1460 + doe \div 36524 - doe \div 146096) \div 365
        doy == doe - (365 * yoe + yoe \div 4 - yoe \div 100)
        mp == (5 * doy + 2) \div 153
        d == doy - (153 * mp + 2) \div 5 + 1
        m == IF mp < 10 THEN mp + 3 ELSE mp - 9
        y == yoe + era * 400 + (IF m <= 2 THEN 1 ELSE 0)
    IN  Pad4(y) \o "-" \o Pad2(m) \o "-" \o Pad2(d)

\* ------------------------------------------------- sidebar: time series
\* One if a control is away from its default.
Moved(value, default) == IF value = default THEN 0 ELSE 1

\* st.multiselect: any subset of the options; nothing selected by default.
Multiselect(opts) == SUBSET opts

ts_state_opts == Unique(df_fact.rows, cState)
ts_week_opts == IF cName \in df_fact.cols THEN Unique(df_fact.rows, cName) ELSE {}
ts_month_opts == IF cMonth \in df_fact.cols THEN Unique(df_fact.rows, cMonth) ELSE {}
ts_dow_opts ==
    IF cDow \in df_fact.cols
    THEN {d \in Range(dow_order) : d \in {df_fact.rows[i][cDow] : i \in DOMAIN df_fact.rows}}
    ELSE {}

\* Series.min() / Series.max() of the dates, nulls skipped (some date is not null).
date_min == Min(Unique(df_fact.rows, cDateDt))
date_max == Max(Unique(df_fact.rows, cDateDt))

\* st.slider over a range: any <<lo, hi>> with min <= lo <= hi <= max.
RangeSlider(points) == {r \in points \X points : r[1] <= r[2]}

\* What the user may set a control to when `left` more controls may still be
\* moved away from their default.
Offer(values, default, left) == IF left > 0 THEN values ELSE {default}

TsSidebar ==
    /\ pc = "ts_sidebar"
    /\ \E ss \in Offer(Multiselect(ts_state_opts), {}, MaxNarrowed - narrowed) :
       \E ws \in Offer(Multiselect(ts_week_opts), {}, MaxNarrowed - narrowed - Moved(ss, {})) :
       \E ms \in Offer(Multiselect(ts_month_opts), {},
                       MaxNarrowed - narrowed - Moved(ss, {}) - Moved(ws, {})) :
       \E ds \in Offer(Multiselect(ts_dow_opts), {},
                       MaxNarrowed - narrowed - Moved(ss, {}) - Moved(ws, {}) - Moved(ms, {})) :
          LET n == narrowed + Moved(ss, {}) + Moved(ws, {}) + Moved(ms, {}) + Moved(ds, {})
          IN  /\ ts_state_sel' = ss /\ ts_week_sel' = ws /\ ts_month_sel' = ms
              /\ ts_dow_sel' = ds
              /\ IF cDateDt \notin df_fact.cols
                 THEN \* date_min is None: no slider
                      /\ ts_date_range' = <<>>
                      /\ narrowed' = n
                      /\ pc' = "ts_filter" /\ UNCHANGED exc
                 ELSE \E r \in Offer(RangeSlider(date_min..date_max), <<date_min, date_max>>,
                                     MaxNarrowed - n) :
                      /\ ts_date_range' = r
                      /\ narrowed' = n + Moved(r, <<date_min, date_max>>)
                      /\ pc' = "ts_filter" /\ UNCHANGED exc
    /\ UNCHANGED <<files, notices, frames, ts, kpis, agWidgets, ag, aggTab, tsTab>>

\* ------------------------------------------------- filters: time series
\* df[df[col].isin(sel)]
Isin(rows, col, sel) == SelectSeq(rows, LAMBDA r : r[col] \in sel)

\* (s >= start) & (s <= end): a comparison with NaT is False.
DateBetween(d, start, end) ==
    /\ d # NaT /\ start # NaT /\ end # NaT
    /\ d >= start /\ d <= end

\* Lines 93-100 on the joined fact table.
TsFilter(df) ==
    LET f1 == IF ts_state_sel # {} THEN Isin(df.rows, cState, ts_state_sel) ELSE df.rows
        f2 == IF ts_week_sel # {} /\ cName \in df.cols THEN Isin(f1, cName, ts_week_sel) ELSE f1
        f3 == IF ts_month_sel # {} /\ cMonth \in df.cols THEN Isin(f2, cMonth, ts_month_sel) ELSE f2
        f4 == IF ts_dow_sel # {} /\ cDow \in df.cols THEN Isin(f3, cDow, ts_dow_sel) ELSE f3
    IN  IF ts_date_range # <<>> /\ cDateDt \in df.cols
        THEN SelectSeq(f4, LAMBDA r : DateBetween(r[cDateDt], ts_date_range[1], ts_date_range[2]))
        ELSE f4

ApplyTsFilters ==
    /\ pc = "ts_filter"
    /\ ts' = Table(df_fact.cols, TsFilter(df_fact))
    /\ pc' = "kpi"
    /\ UNCHANGED <<files, exc, notices, narrowed, frames, tsWidgets, kpis, agWidgets, ag,
                   aggTab, tsTab>>

\* ---------------------------------------------------------------- KPI bar
\* The keys of the groups whose sum no other group's sum exceeds: index[0] of
\* the sums sorted descending is one of them.
ArgMax(rows, key, val) ==
    {k \in Unique(rows, key) :
        \A k2 \in Unique(rows, key) : GroupSum(rows, key, val, k) >= GroupSum(rows, key, val, k2)}

KpiBar ==
    /\ pc = "kpi"
    /\ total_w' = IF ts.rows # <<>> THEN SumCol(ts.rows, cWeight) ELSE 0
    /\ days_count' = IF cDateDt \in ts.cols THEN Cardinality(Unique(ts.rows, cDateDt)) ELSE 0
    /\ sites_count' = IF cSite \in ts.cols THEN Cardinality(Unique(ts.rows, cSite)) ELSE 0
    /\ IF cDow \in ts.cols /\ ts.rows # <<>>
       THEN top_dow' \in ArgMax(ts.rows, cDow, cWeight)
       ELSE top_dow' = "-"
    /\ IF cDateDt \in ts.cols /\ ts.rows # <<>>
       THEN IF ArgMax(ts.rows, cDateDt, cWeight) = {}
            THEN \* index[0] of an empty index
                 Raise("IndexError", 108) /\ UNCHANGED peak_date
            ELSE /\ \E k \in ArgMax(ts.rows, cDateDt, cWeight) : peak_date' = IsoFormat(k)
                 /\ pc' = "ag_sidebar" /\ UNCHANGED exc
       ELSE peak_date' = "-" /\ pc' = "ag_sidebar" /\ UNCHANGED exc
    /\ UNCHANGED <<files, notices, narrowed, frames, tsWidgets, ts, agWidgets, ag, aggTab, tsTab>>

\* ---------------------------------------------------- sidebar: aggregated
\* The texts the model types into the two search boxes.
Queries == { <<>>, <<" ">>, <<".">>, <<"(">>, <<" ", "B", " ">> }

\* st.text_input: any text; empty by default.
TextInput == Queries

ag_state_opts == Unique(df_agg.rows, cState)
ag_site_opts == Unique(df_agg.rows, cSiteId)

\* The largest acceptable-KG value of the (non-empty) aggregated table.
acc_max == Max({df_agg.rows[i][cAcc] : i \in DOMAIN df_agg.rows})

\* Slider positions that separate the table's values: the values themselves
\* and the two ends of the slider.
AccPoints ==
    {0, MaxOf(acc_max, 1)} \cup {df_agg.rows[i][cAcc] : i \in DOMAIN df_agg.rows}

\* st.number_input(min_value=3, max_value=50, value=10, step=1): the values
\* the model tries are the two least, the default and the greatest.
NumberInput == {TopNMin, TopNMin + 1, TopNDefault, TopNMax}

AgSidebar ==
    /\ pc = "ag_sidebar"
    /\ IF cState \notin df_agg.cols
       THEN Raise("KeyError", 123) /\ UNCHANGED <<agWidgets, narrowed>>
       ELSE IF cSiteId \notin df_agg.cols
       THEN Raise("KeyError", 126) /\ UNCHANGED <<agWidgets, narrowed>>
       ELSE IF cAcc \notin df_agg.cols
       THEN \* the run ends at line 132; what the controls above it hold is never read
            Raise("KeyError", 132) /\ UNCHANGED <<agWidgets, narrowed>>
       ELSE /\ \E ss \in Offer(Multiselect(ag_state_opts), {}, MaxNarrowed - narrowed) :
               \E is \in Offer(Multiselect(ag_site_opts), {},
                               MaxNarrowed - narrowed - Moved(ss, {})) :
               \E nq \in Offer(TextInput, <<>>,
                               MaxNarrowed - narrowed - Moved(ss, {}) - Moved(is, {})) :
               \E aq \in Offer(TextInput, <<>>,
                               MaxNarrowed - narrowed - Moved(ss, {}) - Moved(is, {})
                                   - Moved(nq, <<>>)) :
               \E r \in Offer(RangeSlider(AccPoints), <<0, MaxOf(acc_max, 1)>>,
                              MaxNarrowed - narrowed - Moved(ss, {}) - Moved(is, {})
                                  - Moved(nq, <<>>) - Moved(aq, <<>>)) :
               \E n \in Offer(NumberInput, TopNDefault,
                              MaxNarrowed - narrowed - Moved(ss, {}) - Moved(is, {})
                                  - Moved(nq, <<>>) - Moved(aq, <<>>)
                                  - Moved(r, <<0, MaxOf(acc_max, 1)>>)) :
                  /\ ag_state_sel' = ss /\ ag_site_sel' = is
                  /\ ag_name_q' = nq /\ ag_addr_q' = aq
                  /\ ag_acc_range' = r /\ top_n' = n
                  /\ narrowed' = narrowed + Moved(ss, {}) + Moved(is, {}) + Moved(nq, <<>>)
                                    + Moved(aq, <<>>) + Moved(r, <<0, MaxOf(acc_max, 1)>>)
                                    + Moved(n, TopNDefault)
            /\ pc' = "ag_filter" /\ UNCHANGED exc
    /\ UNCHANGED <<files, notices, frames, tsWidgets, ts, kpis, ag, aggTab, tsTab>>

\* ---------------------------------------------------- filters: aggregated
LowerChar(c) == CASE c = "A" -> "a" [] c = "B" -> "b" [] OTHER -> c

\* str.lower()
Lower(s) == [i \in DOMAIN s |-> LowerChar(s[i])]

RECURSIVE LStrip(_)
LStrip(s) == IF s # <<>> /\ Head(s) = " " THEN LStrip(Tail(s)) ELSE s

RECURSIVE RStrip(_)
RStrip(s) == IF s # <<>> /\ s[Len(s)] = " " THEN RStrip(SubSeq(s, 1, Len(s) - 1)) ELSE s

\* str.strip()
Strip(s) == RStrip(LStrip(s))

\* re.compile of a pattern over the letters, the blank, "." and "(": an
\* opening parenthesis that is never closed is an error.
ReCompiles(pat) == "(" \notin Range(pat)

\* re.search of such a pattern: "." stands for any character, every other
\* character for itself.
ReSearch(pat, text) ==
    \E i \in 0..(Len(text) - Len(pat)) :
        \A j \in 1..Len(pat) : pat[j] = "." \/ pat[j] = text[i + j]

\* Series.str.contains(pat) for one value: pat is a regular expression
\* (regex=True is the default).
StrContains(text, pat) == ReSearch(pat, text)

\* between() that leaves out the upper end.
BetweenNoUpper(v, lo, hi) == lo <= v

\* Series.between(lo, hi), both ends included.
Between(v, lo, hi) == lo <= v /\ v <= hi

\* Lines 143-144.
AgSelected(df) ==
    LET a1 == IF ag_state_sel # {} THEN Isin(df.rows, cState, ag_state_sel) ELSE df.rows
    IN  IF ag_site_sel # {} THEN Isin(a1, cSiteId, ag_site_sel) ELSE a1

\* Lines 145-147 and 148-150: one search box applied to one column.
Search(rows, col, query) ==
    IF Strip(query) # <<>>
    THEN SelectSeq(rows, LAMBDA r : StrContains(Lower(r[col]), Strip(Lower(query))))
    ELSE rows

\* The search box holds a pattern re.compile rejects.
SearchRaises(query) == Strip(query) # <<>> /\ ~ReCompiles(Strip(Lower(query)))

ApplyAgFilters ==
    /\ pc = "ag_filter"
    /\ IF SearchRaises(ag_name_q)
       THEN Raise("re.error", 147) /\ UNCHANGED ag
       ELSE IF SearchRaises(ag_addr_q)
       THEN Raise("re.error", 150) /\ UNCHANGED ag
       ELSE /\ ag' = Table(df_agg.cols,
                       SelectSeq(Search(Search(AgSelected(df_agg), cLoc, ag_name_q),
                                         cAddr, ag_addr_q),
                                  LAMBDA r : Between(r[cAcc], ag_acc_range[1], ag_acc_range[2])))
            /\ pc' = "tab_agg" /\ UNCHANGED exc
    /\ UNCHANGED <<files, notices, narrowed, frames, tsWidgets, ts, kpis, agWidgets, aggTab, tsTab>>

\* ------------------------------------------------------------ tab: aggregated
AggregatedTab ==
    /\ pc = "tab_agg"
    /\ \E sorted \in SortDescending(GroupSums(ag.rows, cLoc, cAcc)) :
          bar_data' = HeadN(sorted, top_n)
    /\ state_pie_data' \in SortDescending(GroupSums(ag.rows, cState, cAcc))
    /\ pc' = "tab_ts"
    /\ UNCHANGED <<files, exc, notices, narrowed, frames, tsWidgets, ts, kpis, agWidgets, ag, tsTab>>

\* ------------------------------------------------------------ tab: time series
\* sort_values("Date_dt"): the groups in ascending order of their (distinct) keys.
SortByKey(groups) ==
    CHOOSE s \in Perms(groups) : \A i, j \in DOMAIN s : i < j => s[i][1] < s[j][1]

\* dow_order.index(d) if d in dow_order else 99
DowRank(d) ==
    IF d \in Range(dow_order) THEN (CHOOSE i \in DOMAIN dow_order : dow_order[i] = d) - 1
    ELSE DowOther

\* sort_values("order"): equal ranks may come in either order.
SortByRank(groups) ==
    {s \in Perms(groups) : \A i, j \in DOMAIN s : i < j => DowRank(s[i][1]) <= DowRank(s[j][1])}

\* [d for d in dow_order if d in heat.columns]
ordered_cols(columns) == SelectSeq(dow_order, LAMBDA d : d \in columns)

\* pivot_table(index="Name", columns="Day of Week", values="WeightKG",
\* aggfunc="sum", fill_value=0.0).reindex(columns=ordered_cols)
Pivot(rows) ==
    [index |-> Unique(rows, cName),
     columns |-> ordered_cols(Unique(rows, cDow)),
     cell |-> [p \in Unique(rows, cName) \X Range(ordered_cols(Unique(rows, cDow))) |->
                  SumCol(SelectSeq(rows, LAMBDA r : r[cName] = p[1] /\ r[cDow] = p[2]), cWeight)],
     shown |-> TRUE]

NoData == Notice("info", "No data after filters.")
NoHeatmap == Notice("info", "Heatmap unavailable (no Week data after filters).")

TimeSeriesTab ==
    /\ pc = "tab_ts"
    /\ IF cDateDt \notin ts.cols
       THEN Raise("KeyError", 210) /\ UNCHANGED <<notices, tsTab>>
       ELSE LET d == SortByKey(GroupSums(ts.rows, cDateDt, cWeight))
                n1 == IF d = <<>> THEN Append(notices, NoData) ELSE notices
            IN  /\ daily' = d
                /\ IF cDow \notin ts.cols
                   THEN Raise("KeyError", 221) /\ notices' = n1 /\ UNCHANGED <<dow, heat>>
                   ELSE /\ dow' \in SortByRank(GroupSums(ts.rows, cDow, cWeight))
                        /\ IF cName \in ts.cols /\ ts.rows # <<>>
                           THEN heat' = Pivot(ts.rows) /\ notices' = n1
                           ELSE notices' = Append(n1, NoHeatmap) /\ UNCHANGED heat
                        /\ pc' = "done" /\ UNCHANGED exc
    /\ UNCHANGED <<files, narrowed, frames, tsWidgets, ts, kpis, agWidgets, ag, aggTab>>

Next ==
    \/ CheckAggFile
    \/ CheckFactFile
    \/ LoadAggregated
    \/ LoadFact
    \/ JoinState
    \/ TsSidebar
    \/ ApplyTsFilters
    \/ KpiBar
    \/ AgSidebar
    \/ ApplyAgFilters
    \/ AggregatedTab
    \/ TimeSeriesTab

Spec == Init /\ [][Next]_vars

\* ===================================================================== claims
\* How far the run got.
KpiDone == pc \in {"ag_sidebar", "ag_filter", "tab_agg", "tab_ts", "done"}
              \/ (pc = "crashed" /\ exc.line >= 123)
AgFilterRan == pc \in {"tab_agg", "tab_ts", "done"} \/ (pc = "crashed" /\ exc.line >= 147)
AggTabDone == pc \in {"tab_ts", "done"} \/ (pc = "crashed" /\ exc.line >= 210)

RECURSIVE SumOver(_, _, _)
\* The sum of a column over a set of row numbers.
SumOver(idxs, rows, col) ==
    IF idxs = {} THEN 0
    ELSE LET i == CHOOSE j \in idxs : TRUE
         IN  rows[i][col] + SumOver(idxs \ {i}, rows, col)

\* The sum of a column over the rows whose key column holds k.
SumOfGroup(rows, key, val, k) == SumOver({i \in DOMAIN rows : rows[i][key] = k}, rows, val)

\* The sum of a column over all rows.
Total(rows, col) == SumOver(DOMAIN rows, rows, col)

\* text holds q as a literal substring.
Contains(text, q) == \E i \in 0..(Len(text) - Len(q)) : SubSeq(text, i + 1, i + Len(q)) = q

\* A row satisfies every active time-series criterion.
TsCriteria(r) ==
    /\ ts_state_sel = {} \/ r[cState] \in ts_state_sel
    /\ ts_week_sel = {} \/ r[cName] \in ts_week_sel
    /\ ts_month_sel = {} \/ r[cMonth] \in ts_month_sel
    /\ ts_dow_sel = {} \/ r[cDow] \in ts_dow_sel
    /\ ts_date_range = <<>>
          \/ (r[cDateDt] # NaT /\ ts_date_range[1] <= r[cDateDt] /\ r[cDateDt] <= ts_date_range[2])

\* A row satisfies the state, site and acceptable-KG criteria.
AgSelectionCriteria(r) ==
    /\ ag_state_sel = {} \/ r[cState] \in ag_state_sel
    /\ ag_site_sel = {} \/ r[cSiteId] \in ag_site_sel
    /\ ag_acc_range[1] <= r[cAcc] /\ r[cAcc] <= ag_acc_range[2]

\* A row satisfies the substring criterion of one search box.
SubstringCriterion(r, col, query) ==
    Strip(query) = <<>> \/ Contains(Lower(r[col]), Strip(Lower(query)))

\* C1: the filtered view is exactly the source rows that satisfy all active
\* criteria, for the time-series view and for the aggregated view, whatever the
\* controls hold; an empty selection or an all-blank query excludes nothing.
C1_FilteredViewExact ==
    /\ ts.loaded => ts.rows = SelectSeq(df_fact.rows, TsCriteria)
    /\ AgFilterRan =>
          /\ ag.loaded
          /\ ag.rows = SelectSeq(df_agg.rows,
                          LAMBDA r : /\ AgSelectionCriteria(r)
                                     /\ SubstringCriterion(r, cLoc, ag_name_q)
                                     /\ SubstringCriterion(r, cAddr, ag_addr_q))

\* Every time-series control is at its default.
TsDefaults ==
    /\ ts_state_sel = {} /\ ts_week_sel = {} /\ ts_month_sel = {} /\ ts_dow_sel = {}
    /\ ts_date_range = <<>> \/ ts_date_range = <<date_min, date_max>>

\* C2: a row with an unparseable date has a null date and is not in the view
\* when the date range is active, yet with no control narrowed the Total Weight
\* KPI is the WeightKG of every fact row, rows with a null date included.
C2_NullDateStillCounted ==
    /\ df_fact.loaded /\ cDateDt \in df_fact.cols =>
          \A i \in DOMAIN df_fact.rows :
              df_fact.rows[i][cDate].k # "num" => df_fact.rows[i][cDateDt] = NaT
    /\ ts.loaded /\ ts_date_range # <<>> =>
          \A i \in DOMAIN ts.rows : ts.rows[i][cDateDt] # NaT
    /\ KpiDone /\ TsDefaults => total_w = Total(df_fact.rows, cWeight)

\* C3: when an expected column is absent from an input table, loading and the
\* run still complete: no run ends with an uncaught exception.
C3_MissingColumnsTolerated ==
    (/\ aggFile.exists /\ factFile.exists
     /\ aggFile.cols # AggCols \/ factFile.cols # FactCols)
        => pc # "crashed"

\* C4: when an input file is absent the run shows one error that carries the
\* missing path and halts; no loader, join, filter, metric or chart step runs;
\* the aggregated file is checked first, and loading starts only after both
\* checks have passed.
C4_MissingFileHalts ==
    /\ (~aggFile.exists \/ ~factFile.exists) =>
          /\ pc \in {"check_agg", "check_fact", "stopped"}
          /\ ~df_agg.loaded /\ ~df_fact.loaded /\ ~ts.loaded /\ ~ag.loaded
          /\ exc = NoExc /\ narrowed = 0
          /\ top_dow = "" /\ peak_date = ""
          /\ bar_data = <<>> /\ state_pie_data = <<>> /\ daily = <<>> /\ dow = <<>>
          /\ ~heat.shown
          /\ ~aggFile.exists => pc # "check_fact"
    /\ pc = "stopped" =>
          notices = << Notice("error",
                              IF ~aggFile.exists
                              THEN "Missing file: " \o AGG_PATH
                              ELSE "Missing file: " \o FACT_PATH \o " (expected sheet 'Fact')") >>
    /\ pc # "stopped" /\ (~aggFile.exists \/ ~factFile.exists) => notices = <<>>
    /\ df_agg.loaded \/ df_fact.loaded => aggFile.exists /\ factFile.exists

\* Both files are absent and the run has halted on the aggregated one.
C4_Witness == pc = "stopped" /\ ~aggFile.exists /\ ~factFile.exists /\ Len(notices) = 1

\* The group keys with the largest summed weight.
Heaviest(rows, key) ==
    {k \in {rows[i][key] : i \in DOMAIN rows} :
        \A k2 \in {rows[i][key] : i \in DOMAIN rows} :
            SumOfGroup(rows, key, cWeight, k) >= SumOfGroup(rows, key, cWeight, k2)}

\* C5: with a time-series view of zero rows nothing that consumes the view
\* raises, the KPIs are 0.0, 0, 0, "-" and "-", and the daily chart and the
\* heatmap give way to a notice; with a view that has rows, Top Day of Week
\* and Peak Date are keys of a group with the largest summed WeightKG.
C5_EmptyViewSentinels ==
    /\ ts.loaded /\ ts.rows = <<>> =>
          /\ ~(pc = "crashed" /\ exc.line \in {108, 210, 221})
          /\ KpiDone => /\ total_w = 0 /\ days_count = 0 /\ sites_count = 0
                        /\ top_dow = "-" /\ peak_date = "-"
          /\ pc = "done" => notices = <<NoData, NoHeatmap>> /\ ~heat.shown
    /\ ts.loaded /\ ts.rows # <<>> /\ KpiDone =>
          /\ cDow \in ts.cols => top_dow \in Heaviest(ts.rows, cDow)
          /\ cDateDt \in ts.cols =>
                \E k \in Heaviest(ts.rows, cDateDt) : peak_date = IsoFormat(k)

\* The run is on the scenario table with the acceptable-KG range set to [0, 0]
\* and the other aggregated filters left alone.
ScenarioZeroRange ==
    /\ aggFile = Sheet(AggCols, AggScenario)
    /\ AgFilterRan
    /\ ag_acc_range = <<0, 0>>
    /\ ag_state_sel = {} /\ ag_site_sel = {} /\ ag_name_q = <<>> /\ ag_addr_q = <<>>

\* C6 as stated: on the three-site table the range [0, 0] leaves the aggregated
\* view without rows and every KPI then reads 0.0 / "-".
C6_ZeroRangeZeroesKpis ==
    ScenarioZeroRange =>
        /\ ag.rows = <<>>
        /\ total_w = 0 /\ days_count = 0 /\ sites_count = 0
        /\ top_dow = "-" /\ peak_date = "-"

\* C6 as amended: on the three-site table the range [0, 0] leaves the
\* aggregated view, and with it the Top-N and the state group-sums, without
\* rows; the KPIs are those of the time-series view, which the range does not
\* touch: Total Weight is the view's WeightKG, # Sites its distinct sites, and
\* the KPIs read 0.0 / 0 / "-" when that view has no rows.
C6_ZeroRangeEmptiesAggregated ==
    ScenarioZeroRange =>
        /\ ag.loaded /\ ag.rows = <<>>
        /\ AggTabDone => bar_data = <<>> /\ state_pie_data = <<>>
        /\ total_w = Total(ts.rows, cWeight)
        /\ sites_count = Cardinality({ts.rows[i][cSite] : i \in DOMAIN ts.rows})
        /\ ts.rows = <<>> => /\ total_w = 0 /\ days_count = 0 /\ sites_count = 0
                             /\ top_dow = "-" /\ peak_date = "-"

\* The scenario with range [0, 0] has run to the end and the KPI bar shows weight.
C6_Witness == ScenarioZeroRange /\ pc = "done" /\ total_w > 0 /\ top_dow # "-"

\* The location names of the filtered aggregated view.
Locations == {ag.rows[i][cLoc] : i \in DOMAIN ag.rows}

\* C7: the Top-N result is a prefix of the group-sums of Total Acceptable (KG)
\* by Location Name in descending order of the sum, min(N, number of groups)
\* long, and the full group-sum when N is at least the number of groups; the
\* control delivers N in 3..50.
C7_TopNIsPrefix ==
    AggTabDone =>
        /\ top_n \in TopNMin..TopNMax
        /\ Len(bar_data) = MinOf(top_n, Cardinality(Locations))
        /\ \A i \in DOMAIN bar_data :
              /\ bar_data[i][1] \in Locations
              /\ bar_data[i][2] = SumOfGroup(ag.rows, cLoc, cAcc, bar_data[i][1])
        /\ \A i, j \in DOMAIN bar_data :
              i < j => bar_data[i][1] # bar_data[j][1] /\ bar_data[i][2] >= bar_data[j][2]
        /\ \A k \in Locations \ {bar_data[i][1] : i \in DOMAIN bar_data} :
              \A i \in DOMAIN bar_data : bar_data[i][2] >= SumOfGroup(ag.rows, cLoc, cAcc, k)
        /\ top_n >= Cardinality(Locations) =>
              {bar_data[i][1] : i \in DOMAIN bar_data} = Locations

\* The view has more groups than N, so the ranking has been cut to N entries.
C7_Witness ==
    /\ pc = "done" /\ Cardinality(Locations) > top_n /\ Len(bar_data) = top_n
    /\ bar_data[1][2] > bar_data[top_n][2]

RECURSIVE SumCells(_, _)
\* The sum of the cells of a pivot table.
SumCells(cell, ps) ==
    IF ps = {} THEN 0
    ELSE LET p == CHOOSE q \in ps : TRUE IN cell[p] + SumCells(cell, ps \ {p})

\* C8: wherever a group-sum is computed the sums of the groups add up to the
\* sum of the value column over the table's rows: by state and by location on
\* the aggregated view, by date, by day of week and in the week x day-of-week
\* pivot on the time-series view; no row is dropped, whatever its key.
C8_GroupSumsKeepTotal ==
    /\ AggTabDone =>
          /\ SumPairs(state_pie_data) = Total(ag.rows, cAcc)
          /\ top_n >= Cardinality(Locations) => SumPairs(bar_data) = Total(ag.rows, cAcc)
    /\ pc = "done" =>
          /\ SumPairs(daily) = Total(ts.rows, cWeight)
          /\ SumPairs(dow) = Total(ts.rows, cWeight)
          /\ heat.shown => SumCells(heat.cell, DOMAIN heat.cell) = Total(ts.rows, cWeight)

\* C9: a non-blank query in either search box keeps a row exactly when the
\* row's lower-cased field holds the lower-cased, trimmed query as a literal
\* substring, metacharacters included, and the criterion never raises.
C9_LiteralSubstring ==
    /\ pc = "crashed" => exc.type # "re.error"
    /\ AgFilterRan =>
          \A i \in DOMAIN df_agg.rows :
              AgSelectionCriteria(df_agg.rows[i]) =>
                  (df_agg.rows[i] \in Range(ag.rows)
                      <=> /\ SubstringCriterion(df_agg.rows[i], cLoc, ag_name_q)
                          /\ SubstringCriterion(df_agg.rows[i], cAddr, ag_addr_q))

\* The state of the first aggregated row with the given site id, else "Unknown".
FirstMatchState(site) ==
    LET hits == {i \in DOMAIN df_agg.rows : df_agg.rows[i][cSiteId] = site}
    IN  IF hits = {} THEN "Unknown" ELSE df_agg.rows[Min(hits)][cState]

\* The join has run.
Joined == df_fact.loaded /\ cState \in df_fact.cols

\* C10: the join gives every fact row exactly one output row, whose state is
\* that of the first aggregated row with the same site id, or "Unknown"; the
\* joined table has the rows and the total WeightKG of the loaded table, also
\* when aggregated rows share a site id.
C10_JoinOneToOne ==
    Joined =>
        LET before == load_fact(factFile).rows
        IN  /\ Len(df_fact.rows) = Len(before)
            /\ \A i \in DOMAIN before :
                  /\ \A c \in DOMAIN before[i] : df_fact.rows[i][c] = before[i][c]
                  /\ df_fact.rows[i][cState] = FirstMatchState(before[i][cSite])
            /\ Total(df_fact.rows, cWeight) = Total(before, cWeight)

\* Two aggregated rows with different states share the site id of a fact row,
\* and another fact row matches no site.
C10_Witness ==
    /\ Joined
    /\ \E i \in DOMAIN df_fact.rows :
          Cardinality({df_agg.rows[k][cState] :
                          k \in {j \in DOMAIN df_agg.rows :
                                    df_agg.rows[j][cSiteId] = df_fact.rows[i][cSite]}}) > 1
    /\ \E i \in DOMAIN df_fact.rows : df_fact.rows[i][cState] = "Unknown"

====
